---- MODULE Spec2Model ----
(***************************************************************************)
(* Model of the arch-repo maintenance scripts:                             *)
(*   scripts/update_versions.py    (version normalizer, upstream checkers, *)
(*                                  per-package updater, main)             *)
(*   scripts/generate_pkgbuilds.py (recipe dispatch and its main loop)     *)
(*   scripts/generate_index.py     (the package table of the index page)   *)
(*                                                                         *)
(* A Python str is a sequence of one-character strings.                    *)
(* Three specifications share the variables:                               *)
(*   SpecNorm  calls normalize_version once or twice on a bounded input,   *)
(*   Spec      is one run of update_versions.main,                         *)
(*   SpecGen   is one run of generate_pkgbuilds.main,                      *)
(*   SpecIndex is one call of generate_index.generate_package_table.       *)
(***************************************************************************)
EXTENDS Naturals, Integers, Sequences, FiniteSets, TLC

VARIABLES
    \* ---- normalize_version harness
    raw,              \* the string first passed as `version`
    tag_prefix,       \* the `tag_prefix` argument
    results,          \* the return values of the successive calls
    \* ---- update_versions.main
    file,             \* packages.yaml on disk
    config,           \* config['packages'] in memory, in mapping order
    pc,               \* position of main
    idx,              \* index of the next package of the for loop
    updated_packages, \* the list updated_packages
    status,           \* process exit status once pc = "exited"
    uncaught,         \* the exception that ended the process, or "none"
    writes,           \* times packages.yaml was opened for writing
    loaded,           \* packages.yaml as it was when the run started
    returned,         \* per package: what the upstream checker returned
    last,             \* the last upstream exchange: package, response, return
    \* ---- generate_pkgbuilds.main
    gconfig,          \* config['packages'] of the generator
    gpc,              \* position of the generator's main
    gidx,             \* index of the next package of its for loop
    pkgbuilds,        \* per package: the PKGBUILD file's state
    gerrors,          \* per package: the exception logged for it, or "none"
    gstatus,          \* exit status of the generator once gpc = "exited"
    \* ---- generate_index.generate_package_table
    output_dir,       \* the entries of the output directory
    packages,         \* the packages mapping, in file order
    ipc,              \* position of generate_package_table
    iidx,             \* index of the next package of its for loop
    table_rows        \* the list table_rows

nvars == <<raw, tag_prefix, results>>
uvars == <<file, config, pc, idx, updated_packages, status, uncaught, writes,
           loaded, returned, last>>
gvars == <<gconfig, gpc, gidx, pkgbuilds, gerrors, gstatus>>
ivars == <<output_dir, packages, ipc, iidx, table_rows>>
vars == <<nvars, uvars, gvars, ivars>>

-----------------------------------------------------------------------------
(* Strings *)

\* longest `version` string enumerated for normalize_version
MaxLen == 3
\* longest `tag_prefix` string enumerated for normalize_version
MaxPrefixLen == 2

Chars == {"v", "-", ".", "1", "c"}

RECURSIVE StringsUpTo(_)
StringsUpTo(n) ==
    IF n = 0 THEN {<<>>}
    ELSE LET shorter == StringsUpTo(n - 1)
         IN  shorter \cup {Append(s, ch) : s \in shorter, ch \in Chars}

\* "codex-v1.2.3", "codex-", "v2.0.0", "1-2-3"
CodexTag == <<"c", "o", "d", "e", "x", "-", "v", "1", ".", "2", ".", "3">>
CodexPrefix == <<"c", "o", "d", "e", "x", "-">>
V200 == <<"v", "2", ".", "0", ".", "0">>
Hyphenated == <<"1", "-", "2", "-", "3">>

\* str.startswith
startswith(s, p) == Len(p) <= Len(s) /\ SubSeq(s, 1, Len(p)) = p

\* version[len(tag_prefix):]
SliceFrom(s, n) == SubSeq(s, n + 1, Len(s))

\* re.sub(r'^v?', '', version): the pattern matches once, at position 0,
\* the one character "v" when the string starts with it and nothing otherwise
SubLeadingV(s) == IF Len(s) > 0 /\ s[1] = "v" THEN Tail(s) ELSE s

\* version.replace('-', '.')
ReplaceHyphens(s) == [i \in 1..Len(s) |-> IF s[i] = "-" THEN "." ELSE s[i]]

\* a faulty variant: the leading "v" is removed before the tag prefix
normalize_version_vfirst(version, prefix) ==
    LET v1 == SubLeadingV(version)
        v2 == IF prefix # <<>> /\ startswith(v1, prefix)
              THEN SliceFrom(v1, Len(prefix)) ELSE v1
    IN  ReplaceHyphens(v2)

normalize_version(version, prefix) ==
    LET v1 == IF prefix # <<>> /\ startswith(version, prefix)
              THEN SliceFrom(version, Len(prefix)) ELSE version
        v2 == SubLeadingV(v1)
    IN  ReplaceHyphens(v2)

-----------------------------------------------------------------------------
(* normalize_version called on its own result *)

NormInputs == StringsUpTo(MaxLen) \cup {CodexTag, V200, Hyphenated}
NormPrefixes == StringsUpTo(MaxPrefixLen) \cup {CodexPrefix}

UpdaterIdle ==
    /\ file = [kind |-> "missing"]
    /\ config = <<>>
    /\ pc = "idle"
    /\ idx = 0
    /\ updated_packages = <<>>
    /\ status = 0
    /\ uncaught = "none"
    /\ writes = 0
    /\ loaded = [kind |-> "missing"]
    /\ returned = <<>>
    /\ last = [pkg |-> 0]

GeneratorIdle ==
    /\ gconfig = [kind |-> "missing"]
    /\ gpc = "idle"
    /\ gidx = 0
    /\ pkgbuilds = <<>>
    /\ gerrors = <<>>
    /\ gstatus = 0

IndexIdle ==
    /\ output_dir = {}
    /\ packages = <<>>
    /\ ipc = "idle"
    /\ iidx = 0
    /\ table_rows = <<>>

NormIdle ==
    /\ raw = <<>>
    /\ tag_prefix = <<>>
    /\ results = <<>>

InitNorm ==
    /\ raw \in NormInputs
    /\ tag_prefix \in NormPrefixes
    /\ results = <<>>
    /\ UpdaterIdle
    /\ GeneratorIdle
    /\ IndexIdle

\* the first call normalizes the raw string, the second the first's result
NormalizeCall ==
    /\ Len(results) < 2
    /\ results' = Append(results,
                    normalize_version(IF results = <<>> THEN raw
                                      ELSE results[Len(results)], tag_prefix))
    /\ UNCHANGED <<raw, tag_prefix, uvars, gvars, ivars>>

NextNorm == NormalizeCall

SpecNorm == InitNorm /\ [][NextNorm]_vars

-----------------------------------------------------------------------------
(* Claims about normalize_version *)

\* C4: normalize_version is idempotent: for every raw string and every tag
\* prefix, normalizing the result of a first call again returns it unchanged.
C4_Idempotent ==
    Len(results) = 2 => results[2] = results[1]

\* The three steps as the specification words them.
Suffixes(s) == {SubSeq(s, k, Len(s)) : k \in 1..(Len(s) + 1)}
RemoveOnePrefix(s, p) ==
    IF p # <<>> /\ \E rest \in Suffixes(s) : s = p \o rest
    THEN CHOOSE rest \in Suffixes(s) : s = p \o rest
    ELSE s
RemoveOneLeadingV(s) ==
    IF \E rest \in Suffixes(s) : s = <<"v">> \o rest
    THEN CHOOSE rest \in Suffixes(s) : s = <<"v">> \o rest
    ELSE s
RECURSIVE HyphensToDots(_)
HyphensToDots(s) ==
    IF s = <<>> THEN <<>>
    ELSE <<IF Head(s) = "-" THEN "." ELSE Head(s)>> \o HyphensToDots(Tail(s))

\* C6: the first call returns the input with (1) one occurrence of a given tag
\* prefix removed from the front, then (2) one leading "v" removed, then
\* (3) every hyphen replaced by a dot; "codex-v1.2.3" with prefix "codex-"
\* gives "1.2.3", "v2.0.0" gives "2.0.0" and "1-2-3" gives "1.2.3".
C6_NormalizeSteps ==
    Len(results) >= 1 =>
        /\ results[1] = HyphensToDots(RemoveOneLeadingV(RemoveOnePrefix(raw, tag_prefix)))
        /\ (raw = CodexTag /\ tag_prefix = CodexPrefix)
              => results[1] = <<"1", ".", "2", ".", "3">>
        /\ (raw = V200 /\ tag_prefix = <<>>)
              => results[1] = <<"2", ".", "0", ".", "0">>
        /\ (raw = Hyphenated /\ tag_prefix = <<>>)
              => results[1] = <<"1", ".", "2", ".", "3">>

\* a call that removed a tag prefix, then a leading "v", and replaced a hyphen
C6_Witness ==
    /\ Len(results) >= 1
    /\ tag_prefix = <<"c">>
    /\ raw = <<"c", "v", "-">>
    /\ results[1] = <<".">>

-----------------------------------------------------------------------------
(* update_versions.py: upstream responses *)

\* Optional[str]
None == [py |-> "None"]
Str(s) == [py |-> "str", s |-> s]

Whitespace == {" ", "\n", "\t"}

RECURSIVE lstrip(_)
lstrip(s) == IF s # <<>> /\ Head(s) \in Whitespace THEN lstrip(Tail(s)) ELSE s
RECURSIVE rstrip(_)
rstrip(s) == IF s # <<>> /\ s[Len(s)] \in Whitespace
             THEN rstrip(SubSeq(s, 1, Len(s) - 1)) ELSE s
\* str.strip
strip(s) == rstrip(lstrip(s))

\* tag names a release can carry
GithubTags == { <<"1">>, <<"v", "1">>, <<"v", "v", "1">>, <<"1", "-", "1">>,
                <<"c", "-", "1">>, <<"c", "-", "v", "1">>,
                <<"c", "-", "c", "-", "1">> }

\* the "tag_name" member of the release object: missing, not a string, a string
TagNames == {[py |-> "absent"], [py |-> "int"]} \cup {Str(t) : t \in GithubTags}

\* json.loads of the body: not JSON, JSON that is no object, or an object;
\* a missing "prerelease" member reads as False (data.get('prerelease', False))
GithubBodies ==
    {[json |-> "invalid"], [json |-> "array"]}
    \cup [json : {"object"}, tag_name : TagNames, prerelease : BOOLEAN]

\* bodies of the bucket's version endpoint
GcsBodies == { <<"1">>, <<"v", "1">>, <<"1", ".", "1", "\n">>,
               <<" ", "1", "-", "1", " ">>, <<>>, <<" ", "\n">> }

\* what urlopen does with a request: raises URLError (transport), raises
\* HTTPError (a non-2xx response), or yields a response with a body
Failures == {[net |-> "URLError"], [net |-> "HTTPError"]}
GithubResponses == Failures \cup {[net |-> "ok", body |-> b] : b \in GithubBodies}
GcsResponses == Failures \cup {[net |-> "ok", body |-> b] : b \in GcsBodies}
NoRequest == [net |-> "none"]

\* make_request: re-raises URLError and HTTPError, returns the body otherwise
make_request(resp) ==
    IF resp.net = "ok"
    THEN [raised |-> FALSE, text |-> resp.body]
    ELSE [raised |-> TRUE, exc |-> resp.net]

\* check_github_release: every exception of the try block returns None
check_github_release(resp, prefix, only_stable) ==
    LET response == make_request(resp) IN
    IF response.raised THEN None
    ELSE LET data == response.text IN
         IF data.json = "invalid" THEN None          \* json.loads raises
         ELSE IF data.json # "object" THEN None      \* data.get / data[...] raises
         ELSE IF only_stable /\ data.prerelease THEN None
         ELSE IF data.tag_name.py = "absent" THEN None   \* KeyError
         ELSE IF data.tag_name.py # "str" THEN None      \* TypeError in re.sub
         ELSE Str(normalize_version(data.tag_name.s, prefix))

\* check_gcs_version
check_gcs_version(resp) ==
    LET response == make_request(resp) IN
    IF response.raised THEN None
    ELSE Str(normalize_version(strip(response.text), <<>>))

-----------------------------------------------------------------------------
(* update_versions.py: the configuration and update_package_version *)

\* the keys of the configuration's packages mapping, in file order
PackageNames == <<"app", "tool">>
NumPackages == Len(PackageNames)
\* largest pkgrel a record starts with
MaxPkgrel == 2

\* a dict is a record: a key is present when it is in the record's domain
HasKey(d, k) == k \in DOMAIN d
\* dict.get(k, default)
Get(d, k, default) == IF k \in DOMAIN d THEN d[k] ELSE default

\* recorded versions at load time (normalized)
LoadedVersions == { <<"1">>, <<"1", ".", "1">> }

\* upstream mappings, well formed or lacking a key the updater reads
UpstreamSpecs ==
    { [type |-> "ftp"],
      [type |-> "gcs", bucket_url |-> "b", version_endpoint |-> "latest"],
      [type |-> "gcs"],
      [type |-> "github", repo |-> "o/r"],
      [type |-> "github", repo |-> "o/r", only_stable |-> FALSE],
      [type |-> "github", repo |-> "o/r", tag_prefix |-> <<"c", "-">>],
      [type |-> "github", repo |-> "o/r", tag_prefix |-> <<"c", "-">>,
       only_stable |-> FALSE],
      [type |-> "github"] }

\* package records, with or without the "upstream" key
PackageRecords ==
    [version : LoadedVersions, pkgrel : 1..MaxPkgrel]
    \cup [version : LoadedVersions, pkgrel : 1..MaxPkgrel, upstream : UpstreamSpecs]

\* packages.yaml: absent, not YAML, without packages, or with NumPackages records
ConfigFiles ==
    {[kind |-> "missing"], [kind |-> "unparseable"], [kind |-> "empty"]}
    \cup {[kind |-> "ok", packages |-> ps] : ps \in [1..NumPackages -> PackageRecords]}

\* the requests a package's check sends: what the upstream may answer
ResponsesFor(package_data) ==
    IF ~HasKey(package_data, "upstream") THEN {NoRequest}
    ELSE LET upstream == package_data.upstream IN
         IF upstream.type = "github" /\ HasKey(upstream, "repo")
         THEN GithubResponses
         ELSE IF upstream.type = "gcs" /\ HasKey(upstream, "bucket_url")
                 /\ HasKey(upstream, "version_endpoint")
         THEN GcsResponses
         ELSE {NoRequest}

Raise(exc) == [raised |-> TRUE, exc |-> exc]
NotCalled == [py |-> "not called"]

\* update_package_version, lines 113-128: the checker selected by the type.
\* A missing key raises KeyError out of the function.
select_checker(upstream, resp) ==
    IF upstream.type = "github"
    THEN IF ~HasKey(upstream, "repo") THEN Raise("KeyError")
         ELSE [raised |-> FALSE,
               value |-> check_github_release(resp, Get(upstream, "tag_prefix", <<>>),
                                              Get(upstream, "only_stable", TRUE))]
    ELSE IF upstream.type = "gcs"
    THEN IF ~HasKey(upstream, "bucket_url") \/ ~HasKey(upstream, "version_endpoint")
         THEN Raise("KeyError")
         ELSE [raised |-> FALSE, value |-> check_gcs_version(resp)]
    ELSE [raised |-> FALSE, value |-> NotCalled]

\* update_package_version: (new_version, was_updated), or the exception raised;
\* `checker` records what the upstream checker returned
update_package_version(package_data, resp) ==
    IF ~HasKey(package_data, "upstream") THEN Raise("KeyError")
    ELSE LET current_version == package_data.version
             checked == select_checker(package_data.upstream, resp)
         IN  IF checked.raised THEN checked
             ELSE IF checked.value = NotCalled \/ checked.value = None
             THEN [raised |-> FALSE, new_version |-> current_version,
                   was_updated |-> FALSE, checker |-> checked.value]
             ELSE IF checked.value.s # current_version
             THEN [raised |-> FALSE, new_version |-> checked.value.s,
                   was_updated |-> TRUE, checker |-> checked.value]
             ELSE [raised |-> FALSE, new_version |-> current_version,
                   was_updated |-> FALSE, checker |-> checked.value]

\* a faulty variant: pkgrel is kept when the version changes
record_update_keep_pkgrel(package_data, new_version) ==
    [package_data EXCEPT !.version = new_version]

\* main, lines 175-178: version <- new_version, pkgrel <- 1
record_update(package_data, new_version) ==
    [package_data EXCEPT !.version = new_version, !.pkgrel = 1]

-----------------------------------------------------------------------------
(* update_versions.py: main *)

Unchecked == [py |-> "unchecked"]

Init ==
    /\ file \in ConfigFiles
    /\ loaded = file
    /\ config = <<>>
    /\ pc = "start"
    /\ idx = 0
    /\ updated_packages = <<>>
    /\ status = 0
    /\ uncaught = "none"
    /\ writes = 0
    /\ returned = <<>>
    /\ last = [pkg |-> 0]
    /\ NormIdle
    /\ GeneratorIdle
    /\ IndexIdle

\* sys.exit(code), return from main or an exception no handler catches
Exit(code, exc) ==
    /\ pc' = "exited"
    /\ status' = code
    /\ uncaught' = exc

\* main, lines 144-168: the file is found, parsed, and its packages taken
Load ==
    /\ pc = "start"
    /\ IF file.kind \in {"missing", "unparseable"}
       THEN Exit(1, "none") /\ UNCHANGED <<config, idx, returned>>
       ELSE IF file.kind = "empty"
       THEN Exit(0, "none") /\ UNCHANGED <<config, idx, returned>>
       ELSE /\ config' = file.packages
            /\ idx' = 1
            /\ returned' = [i \in 1..Len(file.packages) |-> Unchecked]
            /\ pc' = "loop"
            /\ UNCHANGED <<status, uncaught>>
    /\ UNCHANGED <<file, loaded, updated_packages, writes, last, nvars, gvars, ivars>>

\* main, lines 171-179: one iteration of the for loop
CheckPackage ==
    /\ pc = "loop"
    /\ idx <= Len(config)
    /\ \E resp \in ResponsesFor(config[idx]) :
          LET r == update_package_version(config[idx], resp) IN
          IF r.raised
          THEN /\ Exit(1, r.exc)
               /\ returned' = [returned EXCEPT ![idx] = [py |-> "raised"]]
               /\ last' = [pkg |-> idx, resp |-> resp, ret |-> [py |-> "raised"]]
               /\ UNCHANGED <<config, idx, updated_packages>>
          ELSE /\ config' = IF r.was_updated
                            THEN [config EXCEPT ![idx] = record_update(@, r.new_version)]
                            ELSE config
               /\ updated_packages' = IF r.was_updated
                                      THEN Append(updated_packages, idx)
                                      ELSE updated_packages
               /\ returned' = [returned EXCEPT ![idx] = r.checker]
               /\ last' = [pkg |-> idx, resp |-> resp, ret |-> r.checker]
               /\ idx' = idx + 1
               /\ UNCHANGED <<pc, status, uncaught>>
    /\ UNCHANGED <<file, loaded, writes, nvars, gvars, ivars>>

\* outcomes of open(packages_file, 'w') and yaml.dump
WriteOutcomes == {"ok", "open failed", "dump failed"}

\* main, lines 181-194: the configuration is written back when a package was
\* updated; a failure to write exits with status 1. A dump that fails leaves
\* the truncated file behind.
WriteBack ==
    /\ pc = "loop"
    /\ idx > Len(config)
    /\ IF updated_packages # <<>>
       THEN \E outcome \in WriteOutcomes :
               /\ writes' = writes + 1
               /\ file' = IF outcome = "ok" THEN [kind |-> "ok", packages |-> config]
                          ELSE IF outcome = "dump failed" THEN [kind |-> "unparseable"]
                          ELSE file
               /\ Exit(IF outcome = "ok" THEN 0 ELSE 1, "none")
       ELSE /\ Exit(0, "none")
            /\ UNCHANGED <<file, writes>>
    /\ UNCHANGED <<config, idx, updated_packages, loaded, returned, last, nvars, gvars, ivars>>

Next == Load \/ CheckPackage \/ WriteBack

Spec == Init /\ [][Next]_vars

-----------------------------------------------------------------------------
(* Claims about the updater *)

Processed(i) == returned # <<>> /\ i \in 1..Len(returned) /\ returned[i] # Unchecked
Started == loaded.kind = "ok"

\* C1: for every package the loop has handled: when the upstream check
\* returned a version different from the recorded one, the record has that
\* version and pkgrel 1; in every other case (same version, no result, unknown
\* upstream type) version and pkgrel are what they were at load time. Packages
\* not handled yet are as loaded.
C1_VersionAndPkgrel ==
    Started /\ pc # "start" =>
        \A i \in 1..Len(config) :
            LET before == loaded.packages[i]
                now == config[i]
            IN  IF Processed(i) /\ returned[i].py = "str"
                   /\ returned[i].s # before.version
                THEN now.version = returned[i].s /\ now.pkgrel = 1
                ELSE now.version = before.version /\ now.pkgrel = before.pkgrel

\* a record whose pkgrel was above 1 and whose version changed, next to one
\* whose check returned the recorded version
C1_Witness ==
    /\ pc = "exited" /\ Started /\ uncaught = "none"
    /\ loaded.packages[1].pkgrel = 2
    /\ returned[1].py = "str" /\ returned[1].s # loaded.packages[1].version
    /\ config[1].pkgrel = 1
    /\ returned[2].py = "str" /\ returned[2].s = loaded.packages[2].version
    /\ loaded.packages[2].pkgrel = 2

\* C2: a failure while checking one package never aborts the run: no exception
\* leaves the loop, the failing package's record is unchanged, and once the
\* process has ended every package of the configuration has been checked.
C2_NoAbort ==
    /\ uncaught = "none"
    /\ (pc = "exited" /\ Started) =>
          \A i \in 1..Len(config) :
              /\ Processed(i)
              /\ returned[i].py # "str" => config[i] = loaded.packages[i]

\* C3: the file is opened for writing at most once, only after every package
\* was processed, and exactly when a record changed in the run; with no change
\* its contents are untouched.
RecordChanged == \E i \in 1..Len(config) : config[i] # loaded.packages[i]
C3_WriteIffChanged ==
    /\ writes <= 1
    /\ writes = 1 => (Started /\ \A i \in 1..Len(config) : Processed(i))
    /\ (pc = "exited" /\ Started) => (writes = 1 <=> RecordChanged)
    /\ (pc = "exited" /\ Started /\ ~RecordChanged) => file = loaded

\* C5: every version stored in the configuration is normalized: no leading
\* "v", not beginning with the package's tag prefix, no hyphen.
Normalized(version, prefix) ==
    /\ ~startswith(version, <<"v">>)
    /\ prefix # <<>> => ~startswith(version, prefix)
    /\ \A k \in 1..Len(version) : version[k] # "-"
PrefixOf(package_data) ==
    IF HasKey(package_data, "upstream")
    THEN Get(package_data.upstream, "tag_prefix", <<>>) ELSE <<>>
C5_StoredVersionsNormalized ==
    \A i \in 1..Len(config) : Normalized(config[i].version, PrefixOf(config[i]))

\* C7: when the latest release is a prerelease and only_stable holds, the
\* release checker's outcome differs from the one it gives on an error and the
\* record is unchanged; otherwise it returns the tag normalized with tag_prefix.
LastIsGithub ==
    /\ last.pkg # 0
    /\ last.resp # NoRequest
    /\ config[last.pkg].upstream.type = "github"
LastUpstream == config[last.pkg].upstream
C7_PrereleaseDistinctFromError ==
    (LastIsGithub /\ last.resp.net = "ok" /\ last.resp.body.json = "object"
       /\ last.resp.body.tag_name.py = "str") =>
        LET only_stable == Get(LastUpstream, "only_stable", TRUE)
            prefix == Get(LastUpstream, "tag_prefix", <<>>)
        IN  IF only_stable /\ last.resp.body.prerelease
            THEN /\ \A f \in Failures :
                       last.ret # check_github_release(f, prefix, only_stable)
                 /\ config[last.pkg] = loaded.packages[last.pkg]
            ELSE last.ret = Str(normalize_version(last.resp.body.tag_name.s, prefix))

\* C8: both checkers return the explicit failure value, and neither a version
\* nor an exception, when the fetch ends in a transport error, a non-2xx
\* response or a malformed body (release API: no JSON object with a string
\* tag_name; bucket: an empty or whitespace-only body).
Malformed(upstream, resp) ==
    /\ resp.net = "ok"
    /\ IF upstream.type = "github"
       THEN \/ resp.body.json # "object"
            \/ resp.body.tag_name.py # "str"
       ELSE strip(resp.body) = <<>>
C8_CheckersFailExplicitly ==
    (last.pkg # 0 /\ last.resp # NoRequest
       /\ (last.resp \in Failures \/ Malformed(LastUpstream, last.resp)))
        => last.ret = None

\* C9: the run ends with status 1 only when the configuration file is missing
\* or cannot be parsed, and with status 0 in every other case.
C9_ExitStatus ==
    pc = "exited" =>
        IF loaded.kind \in {"missing", "unparseable"} THEN status = 1 ELSE status = 0

-----------------------------------------------------------------------------
(* generate_pkgbuilds.py *)

\* packages in the generator's configuration
NumGenPackages == 3

\* the keys both templates read from a package record
FullRecord(upstream) ==
    [version |-> <<"1">>, pkgrel |-> 1, description |-> "d", url |-> "u",
     license |-> "MIT", architectures |-> <<"x86_64">>, upstream |-> upstream]

GenUpstreams ==
    { [type |-> "github", repo |-> "o/r"],
      [type |-> "gcs", bucket_url |-> "b", platform_name |-> "linux-x64"],
      [type |-> "ftp"] }

\* well-formed records, records lacking "description", a record lacking "upstream"
GenRecords ==
    {FullRecord(u) : u \in GenUpstreams}
    \cup {[k \in DOMAIN FullRecord(u) \ {"description"} |-> FullRecord(u)[k]] :
             u \in GenUpstreams}
    \cup {[version |-> <<"1">>, pkgrel |-> 1]}

GenConfigFiles ==
    {[kind |-> "missing"], [kind |-> "unparseable"], [kind |-> "empty"]}
    \cup {[kind |-> "ok", packages |-> ps] : ps \in [1..NumGenPackages -> GenRecords]}

RecordKeys == {"version", "pkgrel", "description", "architectures", "url", "license"}

\* generate_github_pkgbuild: the rendered text, or KeyError for a missing key
generate_github_pkgbuild(package_name, data) ==
    IF ~HasKey(data.upstream, "repo") \/ ~(RecordKeys \subseteq DOMAIN data)
    THEN Raise("KeyError")
    ELSE [raised |-> FALSE,
          text |-> [template |-> "github", pkgname |-> package_name,
                    pkgver |-> data.version, pkgrel |-> data.pkgrel]]

\* generate_gcs_pkgbuild: the rendered text, or KeyError for a missing key
generate_gcs_pkgbuild(package_name, data) ==
    IF ~HasKey(data.upstream, "bucket_url") \/ ~HasKey(data.upstream, "platform_name")
       \/ ~(RecordKeys \subseteq DOMAIN data)
    THEN Raise("KeyError")
    ELSE [raised |-> FALSE,
          text |-> [template |-> "gcs", pkgname |-> package_name,
                    pkgver |-> data.version, pkgrel |-> data.pkgrel]]

\* a faulty variant: an unknown type falls back to the github template
generate_pkgbuild_fallback(package_name, data) ==
    IF ~HasKey(data, "upstream") THEN Raise("KeyError")
    ELSE IF data.upstream.type = "gcs"
    THEN generate_gcs_pkgbuild(package_name, data)
    ELSE generate_github_pkgbuild(package_name,
             [data EXCEPT !.upstream = [type |-> "github", repo |-> "o/r"]])

\* generate_pkgbuild: dispatch on upstream['type'], ValueError otherwise
generate_pkgbuild(package_name, data) ==
    IF ~HasKey(data, "upstream") THEN Raise("KeyError")
    ELSE IF data.upstream.type = "github"
    THEN generate_github_pkgbuild(package_name, data)
    ELSE IF data.upstream.type = "gcs"
    THEN generate_gcs_pkgbuild(package_name, data)
    ELSE Raise("ValueError")

NoFile == [template |-> "no file"]

InitGen ==
    /\ gconfig \in GenConfigFiles
    /\ gpc = "start"
    /\ gidx = 0
    /\ pkgbuilds = <<>>
    /\ gerrors = <<>>
    /\ gstatus = 0
    /\ NormIdle
    /\ UpdaterIdle
    /\ IndexIdle

\* main, lines 222-245: a missing, unparseable or empty configuration exits 1
GenLoad ==
    /\ gpc = "start"
    /\ IF gconfig.kind # "ok"
       THEN /\ gpc' = "exited"
            /\ gstatus' = 1
            /\ UNCHANGED <<gidx, pkgbuilds, gerrors>>
       ELSE /\ gpc' = "loop"
            /\ gidx' = 1
            /\ pkgbuilds' = [i \in 1..Len(gconfig.packages) |->
                                [dir |-> FALSE, file |-> NoFile]]
            /\ gerrors' = [i \in 1..Len(gconfig.packages) |-> "none"]
            /\ UNCHANGED gstatus
    /\ UNCHANGED <<gconfig, nvars, uvars, ivars>>

\* main, lines 248-269: one iteration. The directory is made first; a failed
\* generation is logged and the loop continues; a failed write is logged.
GenPackage ==
    /\ gpc = "loop"
    /\ gidx <= Len(gconfig.packages)
    /\ LET r == generate_pkgbuild(gidx, gconfig.packages[gidx]) IN
       IF r.raised
       THEN /\ pkgbuilds' = [pkgbuilds EXCEPT ![gidx].dir = TRUE]
            /\ gerrors' = [gerrors EXCEPT ![gidx] = r.exc]
       ELSE \E written \in BOOLEAN :
               /\ pkgbuilds' = [pkgbuilds EXCEPT ![gidx] =
                                   [dir |-> TRUE,
                                    file |-> IF written THEN r.text ELSE NoFile]]
               /\ gerrors' = [gerrors EXCEPT ![gidx] =
                                   IF written THEN "none" ELSE "OSError"]
    /\ gidx' = gidx + 1
    /\ UNCHANGED <<gconfig, gpc, gstatus, nvars, uvars, ivars>>

\* main, line 271: the loop is over and main returns
GenDone ==
    /\ gpc = "loop"
    /\ gidx > Len(gconfig.packages)
    /\ gpc' = "exited"
    /\ gstatus' = 0
    /\ UNCHANGED <<gconfig, gidx, pkgbuilds, gerrors, nvars, uvars, ivars>>

NextGen == GenLoad \/ GenPackage \/ GenDone

SpecGen == InitGen /\ [][NextGen]_vars

-----------------------------------------------------------------------------
(* Claims about the recipe generator *)

Supported(data) == HasKey(data, "upstream") /\ data.upstream.type \in {"github", "gcs"}
Unsupported(data) == HasKey(data, "upstream") /\ data.upstream.type \notin {"github", "gcs"}
GenProcessed(i) == gpc # "start" /\ gconfig.kind = "ok" /\ i < gidx

\* C10: a package whose upstream type is neither "github" nor "gcs" fails with
\* the unsupported-type error and gets no PKGBUILD; the loop goes on to the end
\* of the configuration; and whether any other package's PKGBUILD is written
\* depends on that package alone: a package with a supported type, before or
\* after the failing one, gets its file unless its own generation or its own
\* write fails.
C10_UnsupportedTypeAbortsOnlyItself ==
    gconfig.kind = "ok" /\ gpc # "start" =>
        /\ gpc = "exited" => gidx = Len(gconfig.packages) + 1
        /\ \A i \in 1..Len(gconfig.packages) :
              LET data == gconfig.packages[i] IN
              GenProcessed(i) =>
                  /\ Unsupported(data) =>
                        gerrors[i] = "ValueError" /\ pkgbuilds[i].file = NoFile
                  /\ (Supported(data) /\ gerrors[i] \notin {"KeyError", "OSError"}) =>
                        /\ pkgbuilds[i].file # NoFile
                        /\ pkgbuilds[i].file.pkgname = i
                        /\ pkgbuilds[i].file.template = data.upstream.type
                  /\ (Supported(data) /\ RecordKeys \subseteq DOMAIN data) =>
                        gerrors[i] \in {"none", "OSError"}

\* a finished run with an "ftp" package between a github and a gcs package,
\* both of which have their PKGBUILD while the "ftp" one has none
C10_Witness ==
    /\ gpc = "exited" /\ gconfig.kind = "ok"
    /\ \A i \in 1..3 : HasKey(gconfig.packages[i], "upstream")
    /\ gconfig.packages[1].upstream.type = "github"
    /\ gconfig.packages[2].upstream.type = "ftp"
    /\ gconfig.packages[3].upstream.type = "gcs"
    /\ pkgbuilds[1].file # NoFile /\ pkgbuilds[3].file # NoFile
    /\ pkgbuilds[2].file = NoFile /\ gerrors[2] = "ValueError"

-----------------------------------------------------------------------------
(* generate_index.py: the package table *)

\* builds of one package that the output directory may hold
MaxBuilds == 2

\* the characters of the file names, in code-point order
AsciiOrder == <<"-", ".", "0", "1", "2", "3", "4", "6", "8", "_", "a", "b",
                "f", "g", "i", "k", "o", "p", "r", "s", "t", "x", "z">>
Ord(c) == CHOOSE i \in 1..Len(AsciiOrder) : AsciiOrder[i] = c

\* str < str: the first differing character decides, a proper prefix is less
RECURSIVE StrLess(_, _)
StrLess(a, b) ==
    IF b = <<>> THEN FALSE
    ELSE IF a = <<>> THEN TRUE
    ELSE IF Head(a) # Head(b) THEN Ord(Head(a)) < Ord(Head(b))
    ELSE StrLess(Tail(a), Tail(b))

\* str.endswith
endswith(s, suffix) ==
    Len(suffix) <= Len(s) /\ SubSeq(s, Len(s) - Len(suffix) + 1, Len(s)) = suffix

\* ".pkg.tar.zst", ".sig", "foo", "bar"
PkgTarZst == <<".", "p", "k", "g", ".", "t", "a", "r", ".", "z", "s", "t">>
Sig == <<".", "s", "i", "g">>
Foo == <<"f", "o", "o">>
Bar == <<"b", "a", "r">>

\* a faulty variant: the pattern is "{package_name}-*"
glob_match_any(name, package_name) ==
    startswith(name, package_name \o <<"-">>)

\* the pattern f"{package_name}-*.pkg.tar.zst": the name starts with the
\* package name and a hyphen, ends with the suffix, and the two do not overlap
glob_match(name, package_name) ==
    /\ startswith(name, package_name \o <<"-">>)
    /\ endswith(name, PkgTarZst)
    /\ Len(name) >= Len(package_name) + 1 + Len(PkgTarZst)

\* the least name of a non-empty set of names
MinName(names) == CHOOSE n \in names : \A m \in names \ {n} : StrLess(n, m)

\* sorted(package_files): tuples compare by their first member, the file name,
\* and names are unique in a directory
RECURSIVE sorted(_)
sorted(entries) ==
    IF entries = {} THEN <<>>
    ELSE LET first == CHOOSE e \in entries :
                          e.name = MinName({x.name : x \in entries})
         IN  <<first>> \o sorted(entries \ {first})

\* get_package_files: the regular files the pattern matches, by name
get_package_files(dir, package_name) ==
    IF ~dir.exists THEN <<>>
    ELSE sorted({e \in dir.entries : glob_match(e.name, package_name) /\ e.is_file})

KB == 1024

\* f"{x:.1f}" of size / unit: tenths, rounded to nearest, ties to even
OneDecimal(size, unit) ==
    LET q == size \div unit
        r10 == (size % unit) * 10
        t == r10 \div unit
        rest == r10 % unit
        up == IF 2 * rest > unit \/ (2 * rest = unit /\ t % 2 = 1) THEN 1 ELSE 0
        tenths == q * 10 + t + up
    IN  [whole |-> tenths \div 10, tenth |-> tenths % 10]

\* format_size
format_size(size) ==
    IF size < KB THEN [whole |-> size, unit |-> "B"]
    ELSE IF size < KB * KB THEN [whole |-> size \div KB, unit |-> "KB"]
    ELSE IF size < KB * KB * KB
    THEN [whole |-> OneDecimal(size, KB * KB).whole,
          tenth |-> OneDecimal(size, KB * KB).tenth, unit |-> "MB"]
    ELSE [whole |-> OneDecimal(size, KB * KB * KB).whole,
          tenth |-> OneDecimal(size, KB * KB * KB).tenth, unit |-> "GB"]

\* format_time_ago, on diff = int(now - timestamp)
format_time_ago(diff) ==
    IF diff < 60 THEN [text |-> "just now"]
    ELSE IF diff < 3600 THEN [n |-> diff \div 60, text |-> "minutes ago"]
    ELSE IF diff < 86400 THEN [n |-> diff \div 3600, text |-> "hours ago"]
    ELSE [n |-> diff \div 86400, text |-> "days ago"]

\* generate_package_table, lines 80-107: the rows of one package
package_rows(pkg_name, pkg_data, dir) ==
    LET version == Get(pkg_data, "version", "unknown")
        description == Get(pkg_data, "description", "No description")
        package_files == get_package_files(dir, pkg_name)
    IN  IF package_files # <<>>
        THEN [k \in 1..Len(package_files) |->
                 [href |-> package_files[k].name, pkg_name |-> pkg_name,
                  version |-> version, description |-> description,
                  size_str |-> format_size(package_files[k].size),
                  time_str |-> format_time_ago(package_files[k].age)]]
        ELSE << [pkg_name |-> pkg_name, version |-> version,
                 description |-> description,
                 size_str |-> [text |-> "-"], time_str |-> [text |-> "not built"]] >>

\* file names: "{package}-1.{k}-x86_64.pkg.tar.zst" and its signature
Digits == <<"0", "1", "2", "3", "4">>
BuildName(package_name, k) ==
    package_name \o <<"-", "1", ".">> \o <<Digits[k]>>
        \o <<"-", "x", "8", "6", "_", "6", "4">> \o PkgTarZst

\* size in bytes and age in seconds (wall clock minus st_mtime) of a file
FileStats == { [size |-> 2048, age |-> 10],
               [size |-> 1310720, age |-> 7200],
               [size |-> 100, age |-> 200000] }

\* what the directory may hold: builds of foo, one build of bar, a signature
\* of foo's first build, a directory named like a build of bar
FooBuilds(k) ==
    {{}} \cup {{[name |-> BuildName(Foo, k), is_file |-> TRUE,
                 size |-> s.size, age |-> s.age]} : s \in FileStats}
BarBuild ==
    {{}} \cup {{[name |-> BuildName(Bar, 1), is_file |-> TRUE,
                 size |-> s.size, age |-> s.age]} : s \in FileStats}
FooSignature ==
    {{}, {[name |-> BuildName(Foo, 1) \o Sig, is_file |-> TRUE,
           size |-> 100, age |-> 10]}}
BarDirectory ==
    {{}, {[name |-> BuildName(Bar, 2), is_file |-> FALSE,
           size |-> 100, age |-> 10]}}

RECURSIVE FooChoices(_)
FooChoices(k) ==
    IF k = 0 THEN {{}}
    ELSE {a \cup b : a \in FooChoices(k - 1), b \in FooBuilds(k)}

Directories ==
    {[exists |-> FALSE, entries |-> {}]}
    \cup {[exists |-> TRUE, entries |-> a \cup b \cup c \cup d] :
             a \in FooChoices(MaxBuilds), b \in BarBuild,
             c \in FooSignature, d \in BarDirectory}

FooRecord == [name |-> Foo, data |-> [version |-> "1.0", description |-> "foo"]]
BarRecord == [name |-> Bar, data |-> [description |-> "bar"]]
PackageMappings == {<<FooRecord, BarRecord>>, <<BarRecord, FooRecord>>, <<FooRecord>>}

InitIndex ==
    /\ output_dir \in Directories
    /\ packages \in PackageMappings
    /\ ipc = "loop"
    /\ iidx = 1
    /\ table_rows = <<>>
    /\ NormIdle
    /\ UpdaterIdle
    /\ GeneratorIdle

\* generate_package_table, lines 79-107: one iteration of the for loop
TablePackage ==
    /\ ipc = "loop"
    /\ iidx <= Len(packages)
    /\ table_rows' = table_rows
          \o package_rows(packages[iidx].name, packages[iidx].data, output_dir)
    /\ iidx' = iidx + 1
    /\ UNCHANGED <<output_dir, packages, ipc, nvars, uvars, gvars>>

\* generate_package_table, line 109: the rows are joined and returned
TableReturn ==
    /\ ipc = "loop"
    /\ iidx > Len(packages)
    /\ ipc' = "returned"
    /\ UNCHANGED <<output_dir, packages, iidx, table_rows, nvars, uvars, gvars>>

NextIndex == TablePackage \/ TableReturn

SpecIndex == InitIndex /\ [][NextIndex]_vars

-----------------------------------------------------------------------------
(* Claims about the package table *)

Max(a, b) == IF a >= b THEN a ELSE b

\* the files named "{package_name}-" followed by anything
ArtifactsAnySuffix(package_name) ==
    {e \in output_dir.entries :
        /\ e.is_file
        /\ \E k \in 0..Len(e.name) : SubSeq(e.name, 1, k) = package_name \o <<"-">>}

\* the files named "{package_name}-", anything, ".pkg.tar.zst"
ArtifactsPkgTarZst(package_name) ==
    {e \in output_dir.entries :
        /\ e.is_file
        /\ \E k \in 0..(Len(e.name) - Len(package_name) - 1) :
              e.name = package_name \o <<"-">>
                          \o SubSeq(e.name, Len(package_name) + 2, Len(package_name) + 1 + k)
                          \o PkgTarZst}

\* the rows of package i start after those of the packages before it
RECURSIVE RowsBefore(_, _)
RowsBefore(Artifacts(_), i) ==
    IF i = 1 THEN 0
    ELSE RowsBefore(Artifacts, i - 1)
            + Max(1, Cardinality(Artifacts(packages[i - 1].name)))

\* Package i's rows, given which files count as its artifacts: one row per
\* artifact, in ascending file name order, with that file's formatted size
\* and age, or one "not built" row when it has none.
RowsAsClaimed(Artifacts(_), i) ==
    LET files == Artifacts(packages[i].name)
        n == Max(1, Cardinality(files))
        base == RowsBefore(Artifacts, i)
    IN  /\ Len(table_rows) >= base + n
        /\ \A k \in 1..n : table_rows[base + k].pkg_name = packages[i].name
        /\ IF files = {}
           THEN table_rows[base + 1].time_str = [text |-> "not built"]
           ELSE /\ \A k \in 1..n : HasKey(table_rows[base + k], "href")
                /\ {table_rows[base + k].href : k \in 1..n} = {e.name : e \in files}
                /\ \A k \in 1..(n - 1) :
                      StrLess(table_rows[base + k].href, table_rows[base + k + 1].href)
                /\ \A k \in 1..n : \A e \in files :
                      e.name = table_rows[base + k].href =>
                          /\ table_rows[base + k].size_str = format_size(e.size)
                          /\ table_rows[base + k].time_str = format_time_ago(e.age)
                          /\ e.size = 2048 =>
                                table_rows[base + k].size_str = [whole |-> 2, unit |-> "KB"]

TableAsClaimed(Artifacts(_)) ==
    /\ \A i \in 1..Len(packages) : i < iidx => RowsAsClaimed(Artifacts, i)
    /\ ipc = "returned" =>
          Len(table_rows) = RowsBefore(Artifacts, Len(packages) + 1)

\* C11 as stated: for every package in configuration order, one row per file
\* of the output directory matching "{package_name}-*", in ascending file name
\* order, each with the file's formatted size and age, or one "not built" row
\* when there is none; the rows number the sum of max(1, matching files).
C11_RowPerMatchingFile ==
    TableAsClaimed(ArtifactsAnySuffix)

\* C11 amended: the same with the artifacts of a package being the regular
\* files matching "{package_name}-*.pkg.tar.zst"; a 2048-byte
\* foo-1.0-x86_64.pkg.tar.zst gives a foo row showing 2KB and a package with
\* no such file gives one "not built" row.
C11_RowPerPackageFile ==
    TableAsClaimed(ArtifactsPkgTarZst)

\* the table of foo then bar, where foo has two builds, the first of 2048
\* bytes, next to a signature file, and bar has none
C11_Witness ==
    /\ ipc = "returned"
    /\ packages = <<FooRecord, BarRecord>>
    /\ Cardinality(ArtifactsPkgTarZst(Foo)) = 2
    /\ Cardinality(ArtifactsAnySuffix(Foo)) = 3
    /\ ArtifactsPkgTarZst(Bar) = {}
    /\ Len(table_rows) = 3
    /\ HasKey(table_rows[1], "href")
    /\ table_rows[1].href = BuildName(Foo, 1)
    /\ table_rows[1].size_str = [whole |-> 2, unit |-> "KB"]
    /\ table_rows[3].time_str = [text |-> "not built"]

====
